---- MODULE Spec2Model ----
(***************************************************************************)
(* A model of the PYLLR evaluation core: the PAV fit (pyllr/pav_rocch.py   *)
(* PAV), the ROC convex hull derived from it (ROCCH), the optimal Bayes    *)
(* error-rate read off the hull and the rank-based actual Bayes error-rate *)
(* (pyllr/bayes_error_rate.py).                                            *)
(*                                                                         *)
(* Numbers.  A score, a threshold and an operating point (prior log-odds)  *)
(* is the logarithm of a ratio a/b of naturals, written <<a, b>>:          *)
(* <<0, 1>> is -inf, <<1, 0>> is +inf, <<1, 1>> is 0.  Only the order of   *)
(* scores and thresholds matters to the code, and sigmoid(log(a/b)) is the *)
(* rational a/(a+b), so every quantity the code computes from them is an   *)
(* exact rational <<n, d>> (d > 0, lowest terms).  Arrays are sequences,   *)
(* indexed from 1 where the code indexes from 0.                           *)
(***************************************************************************)
EXTENDS Integers, Sequences, FiniteSets, TLC

VARIABLES scores, labels, pav, rocch, plo, ret

vars == <<scores, labels, pav, rocch, plo, ret>>

(* ------------------------------ bounds --------------------------------- *)

\* largest number of trials in a trial set
MaxN == 4
\* largest number of operating points in one call
MaxD == 2
\* the operating points log(a/b) an error-rate curve is examined at have
\* a and b in 1..MaxOdds
MaxOdds == 6

(* --------------------------- exact rationals --------------------------- *)

Abs(x) == IF x < 0 THEN -x ELSE x

RECURSIVE GCD(_, _)
GCD(a, b) == IF b = 0 THEN a ELSE GCD(b, a % b)

\* the rational n/d in lowest terms with a positive denominator; a division
\* by zero gives what numpy's float division gives: <<1, 0>> (inf),
\* <<-1, 0>> (-inf) or <<0, 0>> (nan)
Norm(n, d) ==
    LET g == GCD(Abs(n), Abs(d))
        s == IF d < 0 THEN -1 ELSE 1
    IN  IF d = 0 THEN <<IF n > 0 THEN 1 ELSE IF n < 0 THEN -1 ELSE 0, 0>>
        ELSE <<(s * n) \div g, (s * d) \div g>>

RAdd(x, y) ==
    IF x[2] = 0 /\ y[2] = 0 THEN (IF x = y THEN x ELSE <<0, 0>>)
    ELSE Norm(x[1] * y[2] + y[1] * x[2], x[2] * y[2])
RSub(x, y) == RAdd(x, <<-y[1], y[2]>>)
RMul(x, y) == Norm(x[1] * y[1], x[2] * y[2])
RLt(x, y) == x[1] * y[2] < y[1] * x[2]
RLe(x, y) == x[1] * y[2] <= y[1] * x[2]
RDiv(x, y) == Norm(x[1] * y[2], x[2] * y[1])
RInt(k) == <<k, 1>>
Zero == RInt(0)
One == RInt(1)
Half == <<1, 2>>

RECURSIVE SumSeq(_)
SumSeq(s) == IF s = <<>> THEN 0 ELSE s[1] + SumSeq(Tail(s))

\* numpy.cumsum of an integer array
CumSum(s) == [k \in 1..Len(s) |-> SumSeq(SubSeq(s, 1, k))]

(* ------------------------- logarithms of ratios ------------------------ *)

\* order of log(a/b): -inf = <<0,1>> is below and +inf = <<1,0>> above all
LLt(x, y) == x[1] * y[2] < y[1] * x[2]
LEq(x, y) == ~LLt(x, y) /\ ~LLt(y, x)
\* unary minus on a log-ratio
LNeg(x) == <<x[2], x[1]>>
\* scipy.special.expit
sigmoid(x) == Norm(x[1], x[1] + x[2])

(* ------------------------------- PAV ----------------------------------- *)

\* (mutant) the label itself as the secondary key: np.lexsort((labels, scores))
TieKeyLabel(label) == label

\* the secondary sort key of a trial: -labels in np.lexsort((-labels, scores))
TieKey(label) == -label

\* trial i comes before trial j in np.lexsort((-labels, scores)): by score,
\* then by the secondary key, then by position (the sort is stable)
Before(sc, lb, i, j) ==
    \/ LLt(sc[i], sc[j])
    \/ /\ LEq(sc[i], sc[j])
       /\ \/ TieKey(lb[i]) < TieKey(lb[j])
          \/ TieKey(lb[i]) = TieKey(lb[j]) /\ i < j

\* (mutant) the scores as the only key, np.argsort(scores, kind = 'stable'):
\* trials with equal scores stay in the order of the arrays
lexsortScoresOnly(sc, lb) ==
    [r \in 1..Len(sc) |->
        CHOOSE i \in 1..Len(sc) :
            Cardinality({j \in 1..Len(sc) :
                \/ LLt(sc[j], sc[i])
                \/ LEq(sc[j], sc[i]) /\ j < i}) = r - 1]

\* ii = np.lexsort((-labels, scores)): ii[r] is the trial at sorted position r
lexsort(sc, lb) ==
    [r \in 1..Len(sc) |->
        CHOOSE i \in 1..Len(sc) :
            Cardinality({j \in 1..Len(sc) : Before(sc, lb, j, i)}) = r - 1]

\* (mutant) the comparison the wrong way round
InOrderReversed(a, b) == RLt(b, a)

\* the comparison fastpav makes between the block at i and the block at k:
\* "if y[i] < y[k]" and "prev_y < y[k]" (the blocks are pooled when it fails)
InOrder(a, b) == RLt(a, b)

\* the inner "while True" of _inplace_contiguous_isotonic_regression: extend
\* the decreasing run that starts at block i over block k and the blocks after
\* it, then pool the run into block i and step back one block
RECURSIVE PoolRun(_, _, _, _)
PoolRun(st, k, sum_wy, sum_w) ==
    LET n == Len(st.y)
        prev_y == st.y[k]
        swy == RAdd(sum_wy, RMul(RInt(st.w[k]), st.y[k]))
        sw == sum_w + st.w[k]
        k2 == st.target[k] + 1
    IN  IF k2 = n + 1 \/ InOrder(prev_y, st.y[k2])
        THEN LET tg == [st.target EXCEPT ![st.i] = k2 - 1, ![k2 - 1] = st.i]
             IN  [i |-> IF st.i > 1 THEN tg[st.i - 1] ELSE st.i,
                  y |-> [st.y EXCEPT ![st.i] = RMul(swy, <<1, sw>>)],
                  w |-> [st.w EXCEPT ![st.i] = sw],
                  target |-> tg]
        ELSE PoolRun(st, k2, swy, sw)

\* the outer "while i < n" of _inplace_contiguous_isotonic_regression
RECURSIVE PavLoop(_)
PavLoop(st) ==
    LET n == Len(st.y)
        k == st.target[st.i] + 1
    IN  IF st.i > n \/ k = n + 1 THEN st
        ELSE IF InOrder(st.y[st.i], st.y[k]) THEN PavLoop([st EXCEPT !.i = k])
        ELSE PavLoop(PoolRun(st, k, RMul(RInt(st.w[st.i]), st.y[st.i]), st.w[st.i]))

\* "Reconstruct the solution": the start of the block that holds position j
RECURSIVE BlockStart(_, _, _)
BlockStart(target, i, j) ==
    IF j <= target[i] THEN i ELSE BlockStart(target, target[i] + 1, j)

\* (mutant) the pooled value is written to the first position of a block
\* only: the "Reconstruct the solution" loop is left out
fastpavNoReconstruct(y) ==
    IF y = <<>> THEN y
    ELSE PavLoop([i |-> 1, y |-> y,
                  w |-> [j \in 1..Len(y) |-> 1],
                  target |-> [j \in 1..Len(y) |-> j]]).y

\* fastpav(y, weights) with unit weights: the isotonic fit of y, in place
fastpav(y) ==
    IF y = <<>> THEN y
    ELSE LET st == PavLoop([i |-> 1, y |-> y,
                            w |-> [j \in 1..Len(y) |-> 1],
                            target |-> [j \in 1..Len(y) |-> j]])
         IN  [j \in 1..Len(y) |-> st.y[BlockStart(st.target, 1, j)]]

\* np.unique(y, return_index = True, return_counts = True): the distinct
\* values in ascending order, the first position of each and how many times
\* it occurs
unique(y) ==
    LET vals == {y[j] : j \in 1..Len(y)}
        p == [k \in 1..Cardinality(vals) |->
                CHOOSE v \in vals : Cardinality({u \in vals : RLt(u, v)}) = k - 1]
        at(k) == {j \in 1..Len(y) : y[j] = p[k]}
    IN  [p |-> p,
         ff |-> [k \in 1..Len(p) |-> CHOOSE j \in at(k) : \A j2 \in at(k) : j <= j2],
         counts |-> [k \in 1..Len(p) |-> Cardinality(at(k))]]

\* np.rint of the rational x: the nearest integer, halves to the even one
rint(x) ==
    LET q == x[1] \div x[2]
        r == x[1] % x[2]
    IN  IF 2 * r < x[2] THEN q
        ELSE IF 2 * r > x[2] THEN q + 1
        ELSE IF q % 2 = 0 THEN q ELSE q + 1

\* (mutant) the count recovered from 1 - p: the non-targets as targets
RecoverTargetsSwapped(counts, p) ==
    [k \in 1..Len(p) |-> rint(RMul(RInt(counts[k]), RSub(One, p[k])))]

\* self.targets = np.rint(counts * p).astype(int)
RecoverTargets(counts, p) ==
    [k \in 1..Len(p) |-> rint(RMul(RInt(counts[k]), p[k]))]

\* (mutant) the low score of the bin stored as its high score too:
\* self.scores[:,1] = scores[ii[ff]]
bin_scoresLowTwice(sc, ii, ff, counts) ==
    [k \in 1..Len(ff) |-> <<sc[ii[ff[k]]], sc[ii[ff[k]]]>>]

\* self.scores: the low and the high score of every bin,
\*   self.scores[:,0] = scores[ii[ff]]
\*   self.scores[:,1] = scores[ii[ff+counts-1]]
bin_scores(sc, ii, ff, counts) ==
    [k \in 1..Len(ff) |-> <<sc[ii[ff[k]]], sc[ii[ff[k] + counts[k] - 1]]>>]

\* (mutant) the second comparison of the chain turned round: T > 0 > N
BothClassesTurned(T, N) == T > 0 /\ 0 > N

\* assert T > 0 < N: the chained comparison T > 0 and 0 < N
BothClasses(T, N) == T > 0 /\ 0 < N

\* PAV.__init__(scores, labels): the PAV object (state "ok"), or the assertion
\* that failed: "assert T > 0 < N", or one of the two asserts on the sums
PAV(sc, lb) ==
    LET T == SumSeq(lb)
        N == Len(lb) - T
        ii == lexsort(sc, lb)
        y == fastpav([r \in 1..Len(sc) |-> RInt(lb[ii[r]])])
        u == unique(y)
        nbins == Len(u.p)
        targets == RecoverTargets(u.counts, u.p)
        nontars == [k \in 1..nbins |-> u.counts[k] - targets[k]]
    IN  IF ~BothClasses(T, N) THEN [state |-> "AssertionError", at |-> "T > 0 < N"]
        ELSE IF SumSeq(targets) # T \/ SumSeq(nontars) # N
        THEN [state |-> "AssertionError", at |-> "sum"]
        ELSE [state |-> "ok", T |-> T, N |-> N, nbins |-> nbins, p |-> u.p, counts |-> u.counts,
              scores |-> bin_scores(sc, ii, u.ff, u.counts),
              targets |-> targets, nontars |-> nontars]

\* PAV.llrs: llr = logit(self.p) - np.log(self.T / self.N), as a log-ratio
\* for each bin: logit(a/b) = log(a/(b-a))
llrs(pv) ==
    [k \in 1..pv.nbins |->
        LET a == pv.p[k][1] * pv.N
            b == (pv.p[k][2] - pv.p[k][1]) * pv.T
            g == GCD(a, b)
        IN  <<a \div g, b \div g>>]

(* ------------------------------ ROCCH ---------------------------------- *)

\* a.ravel() of an (nbins, 2) array: its rows one after the other
ravel(a) == [j \in 1..2 * Len(a) |-> a[(j + 1) \div 2][2 - (j % 2)]]

\* (mutant) LLRs = self.scores: the llrs are written into the array of the
\* bin scores instead of a new array
scores_vs_llrsAliased(pv) ==
    LET llr == llrs(pv)
        LLRs == [k \in 1..pv.nbins |-> <<llr[k], llr[k]>>]
    IN  [self |-> [pv EXCEPT !.scores = LLRs],
         value |-> <<ravel(LLRs), ravel(LLRs)>>]

\* PAV.scores_vs_llrs: the PAV object after the call and the two vectors
\* returned.  LLRs = np.empty_like(self.scores) is a new array, whose two
\* columns are filled with llr = logit(p) - log(T / N), in place; self.scores
\* is only read.
scores_vs_llrs(pv) ==
    LET llr == llrs(pv)
        LLRs == [k \in 1..pv.nbins |-> <<llr[k], llr[k]>>]
    IN  [self |-> pv,
         value |-> <<ravel(pv.scores), ravel(LLRs)>>]

\* (mutant) pfa left as the cumulative fraction of non-targets: the steps
\* "pfa -= self.N" and the sign of "pfa /= (-self.N)" are lost
rocch_matrixNoComplement(pv) ==
    LET ct == <<0>> \o CumSum(pv.targets)
        cn == <<0>> \o CumSum(pv.nontars)
    IN  [pmiss |-> [k \in 1..pv.nbins + 1 |-> Norm(ct[k], pv.T)],
         pfa |-> [k \in 1..pv.nbins + 1 |-> Norm(cn[k], pv.N)]]

\* PAV.rocch(asmatrix = True): the matrix PmissPfa, row 0 as pmiss and row 1
\* as pfa; vertex k of the code is at position k + 1
\*   pmiss = [0, cumsum(targets)] / T
\*   pfa   = ([0, cumsum(nontars)] - N) / (-N)
rocch_matrix(pv) ==
    LET ct == <<0>> \o CumSum(pv.targets)
        cn == <<0>> \o CumSum(pv.nontars)
    IN  [pmiss |-> [k \in 1..pv.nbins + 1 |-> Norm(ct[k], pv.T)],
         pfa |-> [k \in 1..pv.nbins + 1 |-> Norm(cn[k] - pv.N, -pv.N)]]

(* ------------------- ROCCH.Bayes_error_rate (optimal) ------------------- *)

Scalar(x) == [kind |-> "scalar", v |-> x]
Array(a) == [kind |-> "array", v |-> a]

\* (mutant) the two priors the wrong way round: PP[0] = sigmoid(-plo)
CostRowSwapped(PmissPfa, x) ==
    [k \in 1..Len(PmissPfa.pmiss) |->
        RAdd(RMul(sigmoid(LNeg(x)), PmissPfa.pmiss[k]),
             RMul(sigmoid(x), PmissPfa.pfa[k]))]

\* one row of E = PP.T @ self.PmissPfa: the cost of every vertex at the
\* operating point x, sigmoid(x) * pmiss[k] + sigmoid(-x) * pfa[k]
CostRow(PmissPfa, x) ==
    [k \in 1..Len(PmissPfa.pmiss) |->
        RAdd(RMul(sigmoid(x), PmissPfa.pmiss[k]),
             RMul(sigmoid(LNeg(x)), PmissPfa.pfa[k]))]

\* E.argmin(axis = 1) on one row: the first position of the smallest entry
argmin(row) ==
    CHOOSE k \in 1..Len(row) :
        /\ \A j \in 1..Len(row) : RLe(row[k], row[j])
        /\ \A j \in 1..k - 1 : RLt(row[k], row[j])

\* (mutant) the largest entry of the row: E.max(axis = 1)
rowmax(row) ==
    row[CHOOSE k \in 1..Len(row) : \A j \in 1..Len(row) : RLe(row[j], row[k])]

\* E.min(axis = 1) on one row
rowmin(row) == row[argmin(row)]

\* ROCCH.Bayes_error_rate(prior_log_odds, return_Pmiss_Pfa): arg is a scalar
\* or an array of operating points; the result keeps its shape
Bayes_error_rate(PmissPfa, arg, return_Pmiss_Pfa) ==
    LET sc == arg.kind = "scalar"
        xs == IF sc THEN <<arg.v>> ELSE arg.v
        m == Len(xs)
        E == [j \in 1..m |-> CostRow(PmissPfa, xs[j])]
        shape(a) == IF sc THEN Scalar(a[1]) ELSE Array(a)
        jj == [j \in 1..m |-> argmin(E[j])]
    IN  IF ~return_Pmiss_Pfa
        THEN [ber |-> shape([j \in 1..m |-> rowmin(E[j])])]
        ELSE [ber |-> shape([j \in 1..m |-> E[j][jj[j]]]),
              Pmiss |-> shape([j \in 1..m |-> PmissPfa.pmiss[jj[j]]]),
              Pfa |-> shape([j \in 1..m |-> PmissPfa.pfa[jj[j]]])]

(* ------------------------------ ROCCH.EER ------------------------------- *)

\* the operating points at which two vertices j < k cost the same:
\* sigmoid(x) * (pmiss[k] - pmiss[j]) = sigmoid(-x) * (pfa[j] - pfa[k]), that is
\* x = log((pfa[j] - pfa[k]) / (pmiss[k] - pmiss[j])), kept when finite.  The
\* optimal Bayes error-rate is the lower envelope of the vertex costs, so as a
\* function of x it only turns at these points.
Kinks(PmissPfa) ==
    LET n == Len(PmissPfa.pmiss)
        dfa(j, k) == RSub(PmissPfa.pfa[j], PmissPfa.pfa[k])
        dmiss(j, k) == RSub(PmissPfa.pmiss[k], PmissPfa.pmiss[j])
        at(j, k) == LET a == dfa(j, k)[1] * dmiss(j, k)[2]
                        b == dfa(j, k)[2] * dmiss(j, k)[1]
                    IN  <<a \div GCD(a, b), b \div GCD(a, b)>>
    IN  {at(j, k) : <<j, k>> \in {q \in (1..n) \X (1..n) :
                        /\ q[1] < q[2]
                        /\ dfa(q[1], q[2])[1] > 0
                        /\ dmiss(q[1], q[2])[1] > 0}}

\* ROCCH.AUC: the sum over the segments i of
\*   delta_x * avg_y = (pfa[i] - pfa[i+1]) * (pmiss[i] + pmiss[i+1]) / 2
RECURSIVE AUCFrom(_, _)
AUCFrom(PmissPfa, i) ==
    IF i > Len(PmissPfa.pmiss) - 1 THEN Zero
    ELSE LET delta_x == RSub(PmissPfa.pfa[i], PmissPfa.pfa[i + 1])
             avg_y == RMul(RAdd(PmissPfa.pmiss[i], PmissPfa.pmiss[i + 1]), Half)
         IN  RAdd(RMul(delta_x, avg_y), AUCFrom(PmissPfa, i + 1))

AUC(PmissPfa) == AUCFrom(PmissPfa, 1)

\* res = minimize_scalar(f) for f(x) = -self.Bayes_error_rate(x): res.x, a
\* minimiser of f over the real line.  scipy's Brent search is taken at its
\* contract, exact: f is unimodal and turns only at Kinks, so a minimiser of f
\* over Kinks is a minimiser over the line.
minimize_scalar(PmissPfa) ==
    CHOOSE x \in Kinks(PmissPfa) :
        \A y \in Kinks(PmissPfa) :
            RLe(Bayes_error_rate(PmissPfa, Scalar(y), FALSE).ber.v,
                Bayes_error_rate(PmissPfa, Scalar(x), FALSE).ber.v)

\* (mutant) the value of f at the minimiser, res.fun, with its sign
EERSignLost(PmissPfa) ==
    LET v == Bayes_error_rate(PmissPfa, Scalar(minimize_scalar(PmissPfa)), FALSE).ber.v
    IN  <<-v[1], v[2]>>

\* ROCCH.EER: -f(res.x)
EER(PmissPfa) ==
    Bayes_error_rate(PmissPfa, Scalar(minimize_scalar(PmissPfa)), FALSE).ber.v

(* ------------------- fast_Bayes_error_rate (actual) --------------------- *)

\* stats.rankdata(x, method = 'ordinal'): ranks from 1, equal values ranked
\* in the order they occur in x
ordinalrank(x) ==
    [i \in 1..Len(x) |->
        1 + Cardinality({j \in 1..Len(x) : LLt(x[j], x[i])})
          + Cardinality({j \in 1..i - 1 : LEq(x[j], x[i])})]

\* scores[labels == c]
Select(sc, lb, c) ==
    LET RECURSIVE pick(_)
        pick(i) == IF i > Len(sc) THEN <<>>
                   ELSE (IF lb[i] = c THEN <<sc[i]>> ELSE <<>>) \o pick(i + 1)
    IN  pick(1)

\* (mutant) the sortedness assert left out
IsSortedUnchecked(a) == TRUE

\* assert (np.diff(plo) >= 0).all()
IsSorted(a) == \A j \in 1..Len(a) - 1 : ~LLt(a[j + 1], a[j])

RMin(x, y) == IF RLt(y, x) THEN y ELSE x

\* fast_Bayes_error_rate(scores, labels, prior_log_odds, return_der_Pmiss_Pfa)
\* for an array of operating points: the returned value, or the assertion
\* that failed
fast_Bayes_error_rate(sc, lb, a, return_der_Pmiss_Pfa) ==
    LET thr == [j \in 1..Len(a) |-> LNeg(a[j])]
        tar == Select(sc, lb, 1)
        non == Select(sc, lb, 0)
        D == Len(a)
        T == Len(tar)
        N == Len(non)
        Ddownto1 == [j \in 1..D |-> D - j + 1]
        rkT == ordinalrank(thr \o tar)
        rkN == ordinalrank(thr \o non)
        Pmiss == [j \in 1..D |-> Norm(rkT[j] - Ddownto1[j], T)]
        Pfa == [j \in 1..D |-> Norm(N - rkN[j] + Ddownto1[j], N)]
        Ptar == [j \in 1..D |-> sigmoid(a[j])]
        Pnon == [j \in 1..D |-> sigmoid(thr[j])]
        ber == [j \in 1..D |-> RAdd(RMul(Ptar[j], Pmiss[j]), RMul(Pnon[j], Pfa[j]))]
        der == [j \in 1..D |-> RMin(Ptar[j], Pnon[j])]
    IN  IF ~IsSorted(a) THEN [state |-> "AssertionError", at |-> "sorted"]
        ELSE IF ~(N + T > 0 /\ 0 < D) THEN [state |-> "AssertionError", at |-> "N + T > 0 < D"]
        ELSE IF return_der_Pmiss_Pfa
        THEN [state |-> "ok", ber |-> Array(ber), der |-> Array(der),
              Pmiss |-> Array(Pmiss), Pfa |-> Array(Pfa)]
        ELSE [state |-> "ok", ber |-> Array(ber)]

\* default_error_rate(prior_log_odds): np.minimum(Ptar, Pnon) with
\* Ptar = sigmoid(plo) and Pnon = sigmoid(-plo), elementwise; the result
\* keeps the shape of the argument
default_error_rate(arg) ==
    LET one(x) == RMin(sigmoid(x), sigmoid(LNeg(x)))
    IN  IF arg.kind = "scalar" THEN Scalar(one(arg.v))
        ELSE Array([j \in 1..Len(arg.v) |-> one(arg.v[j])])

(* ---------------------- Bayes_error_rate_analysis ----------------------- *)

\* the number of names "ber, der, Pmiss, Pfa = ..." unpacks its value into
Unpacked == 4

\* Bayes_error_rate_analysis(scores, labels, prior_log_odds):
\*   pav = ROCCH(PAV(scores, labels)).Bayes_error_rate(plo)
\*   ber , der, Pmiss, Pfa = fast_Bayes_error_rate(scores, labels, plo)
\*   return pav, ber, der
\* fast_Bayes_error_rate is called without return_der_Pmiss_Pfa and returns
\* the array ber alone, so the unpacking iterates over ber: a ValueError unless
\* ber has Unpacked entries, and then ber and der are its first two entries
Bayes_error_rate_analysis(sc, lb, a) ==
    LET pv == PAV(sc, lb)
        fast == fast_Bayes_error_rate(sc, lb, a, FALSE)
    IN  IF pv.state # "ok" THEN pv
        ELSE IF fast.state # "ok" THEN fast
        ELSE IF Len(fast.ber.v) # Unpacked THEN [state |-> "ValueError", at |-> "unpack"]
        ELSE [state |-> "ok",
              pav |-> Bayes_error_rate(rocch_matrix(pv), Array(a), FALSE).ber,
              ber |-> Scalar(fast.ber.v[1]),
              der |-> Scalar(fast.ber.v[2])]

(* --------------------------- Cllr and minCllr --------------------------- *)

\* softplus of a log-ratio is the logarithm of a rational, a sum of
\* logarithms is the logarithm of the product, and the means of cross_entropy
\* and min_cllr divide by integers: Cllr and minCllr are log(x) / (m * log(2))
\* for a rational x >= 1 and an integer m, written [L |-> x, m |-> m].  The
\* products outgrow the integers of the checker, so x is kept by the exponents
\* of its prime factors, [kind |-> "finite", e |-> [p \in Primes |-> ...]];
\* kind "inf" is +inf and kind "nan" is nan.

\* no numerator or denominator of a softplus value (a + b)/b is larger: the
\* scores are log-ratios of small naturals or log-ratios a/b of PAV.llrs,
\* where a and b are products of two counts
MaxFactor == 2 * MaxN * MaxN

Primes == {p \in 2..MaxFactor : \A d \in 2..p - 1 : p % d # 0}

\* the exponent of the prime p in the natural n >= 1
RECURSIVE Expo(_, _)
Expo(n, p) == IF n % p = 0 THEN 1 + Expo(n \div p, p) ELSE 0

PNan == [kind |-> "nan", e |-> [p \in Primes |-> 0]]
PInf == [kind |-> "inf", e |-> [p \in Primes |-> 0]]
POne == [kind |-> "finite", e |-> [p \in Primes |-> 0]]

\* the rational x = <<a, b>>, a > 0, by its prime factors
PFrac(x) ==
    IF x[2] = 0 THEN (IF x[1] = 0 THEN PNan ELSE PInf)
    ELSE [kind |-> "finite", e |-> [p \in Primes |-> Expo(x[1], p) - Expo(x[2], p)]]

\* log(u) + log(v) = log(u * v)
PMul(u, v) ==
    IF u.kind = "nan" \/ v.kind = "nan" THEN PNan
    ELSE IF u.kind = "inf" \/ v.kind = "inf" THEN PInf
    ELSE [kind |-> "finite", e |-> [p \in Primes |-> u.e[p] + v.e[p]]]

\* n * log(u) = log(u ** n) for an integer n > 0; 0 * inf is nan
PPow(u, n) ==
    IF u.kind = "nan" \/ (u.kind = "inf" /\ n = 0) THEN PNan
    ELSE IF u.kind = "inf" THEN PInf
    ELSE [kind |-> "finite", e |-> [p \in Primes |-> n * u.e[p]]]

\* utils.softplus(x) = log(1 + exp(x)) of the log-ratio x = log(a/b): the
\* rational (a + b)/b whose logarithm it is; softplus(-inf) = 0 = log(1) and
\* softplus(inf) = inf
softplus(x) == PFrac(Norm(x[1] + x[2], x[2]))

\* the number whose logarithm is the sum of c[k] * log(xs[k]) over the
\* positions k of keep: costs[mask] @ counts[mask], and np.sum with c = 1
RECURSIVE LogDot(_, _, _)
LogDot(xs, c, keep) ==
    IF keep = {} THEN POne
    ELSE LET k == CHOOSE j \in keep : TRUE
         IN  PMul(PPow(xs[k], c[k]), LogDot(xs, c, keep \ {k}))

\* (mutant) the two classes the wrong way round: tt = labels == 0
scoreslabels_2_tarnonSwapped(sc, lb) == [tar |-> Select(sc, lb, 0), non |-> Select(sc, lb, 1)]

\* utils.scoreslabels_2_tarnon(scores, labels)
scoreslabels_2_tarnon(sc, lb) == [tar |-> Select(sc, lb, 1), non |-> Select(sc, lb, 0)]

\* cllr(tar, non) = cross_entropy(tar, non, Ptar = 0.5):
\*   t = np.mean(softplus(-tar)), n = np.mean(softplus(non)),
\*   (0.5 * t + 0.5 * n) / log2
\* (log(X)/T + log(Y)/N) / (2 log 2) = log(X^N * Y^T) / (2 T N log 2); the mean
\* of an empty array is nan
cllr(tar, non) ==
    LET T == Len(tar)
        N == Len(non)
        ones(n) == [k \in 1..n |-> 1]
        t == LogDot([k \in 1..T |-> softplus(LNeg(tar[k]))], ones(T), 1..T)
        n == LogDot([k \in 1..N |-> softplus(non[k])], ones(N), 1..N)
    IN  IF T = 0 \/ N = 0 THEN [L |-> PNan, m |-> 1]
        ELSE [L |-> PMul(PPow(t, N), PPow(n, T)), m |-> 2 * T * N]

\* the costs min_cllr computes for every bin: softplus(-llrs), softplus(llrs)
tar_costs(pv) == [k \in 1..pv.nbins |-> softplus(LNeg(llrs(pv)[k]))]
non_costs(pv) == [k \in 1..pv.nbins |-> softplus(llrs(pv)[k])]

\* the masks tnz = tar_counts > 0 and nnz = non_counts > 0, as the sets of
\* bins they keep
tnz(pv) == {k \in 1..pv.nbins : pv.targets[k] > 0}
nnz(pv) == {k \in 1..pv.nbins : pv.nontars[k] > 0}

\* (mutant) min_cllr without the masks tnz and nnz: a bin with count 0 and
\* an infinite cost contributes 0 * inf = nan
min_cllrUnmasked(pv) ==
    LET T == SumSeq(pv.targets)
        N == SumSeq(pv.nontars)
        t == LogDot(tar_costs(pv), pv.targets, 1..pv.nbins)
        n == LogDot(non_costs(pv), pv.nontars, 1..pv.nbins)
    IN  [L |-> PMul(PPow(t, N), PPow(n, T)), m |-> 2 * T * N]

\* min_cllr(pav):
\*   ((tar_costs[tnz] @ tar_counts[tnz]) / T
\*     + (non_costs[nnz] @ non_counts[nnz]) / N) / (2 * log2)
min_cllr(pv) ==
    LET T == SumSeq(pv.targets)
        N == SumSeq(pv.nontars)
        t == LogDot(tar_costs(pv), pv.targets, tnz(pv))
        n == LogDot(non_costs(pv), pv.nontars, nnz(pv))
    IN  [L |-> PMul(PPow(t, N), PPow(n, T)), m |-> 2 * T * N]

\* quick_eval.scoreslabels_2_eer_cllr_mincllr(scores, labels): eer, Cllr and
\* minCllr, or the assertion of the PAV constructor that failed
scoreslabels_2_eer_cllr_mincllr(sc, lb) ==
    LET pv == PAV(sc, lb)
        tn == scoreslabels_2_tarnon(sc, lb)
    IN  IF pv.state # "ok" THEN pv
        ELSE [state |-> "ok",
              eer |-> EER(rocch_matrix(pv)),
              Cllr |-> cllr(tn.tar, tn.non),
              minCllr |-> min_cllr(pv)]

(* ------------------------- the trial sets ------------------------------ *)

\* the scores of the trials: log(1/2) < 0 < log(2)
ScoreSet == {<<1, 2>>, <<1, 1>>, <<2, 1>>}

\* the operating points of the calls, 0 and log(2): their Bayes thresholds,
\* 0 and log(1/2), fall on scores
PloSet == {<<1, 1>>, <<2, 1>>}

NoPAV == [state |-> "none"]
NoROCCH == [state |-> "none"]
NoRet == [op |-> "none"]
NoPlo == [kind |-> "none"]

\* the arrays of d values of S
RECURSIVE ArraysOf(_, _)
ArraysOf(S, d) ==
    IF d = 0 THEN {<<>>} ELSE {Append(a, x) : a \in ArraysOf(S, d - 1), x \in S}

\* the arrays of at most MaxD operating points, sorted or not
PloArrays == UNION {ArraysOf(PloSet, d) : d \in 0..MaxD}

\* the arrays Bayes_error_rate_analysis is called with: those, and the sorted
\* arrays of as many operating points as its unpacking takes
AnalysisArrays == PloArrays \cup {a \in ArraysOf(PloSet, Unpacked) : IsSorted(a)}

\* the trial set with every score replaced by the LLR that PAV fits to its
\* block (the score-to-LLR map of PAV.llrs applied to the trials)
Calibrated(sc, lb) ==
    LET pv == PAV(sc, lb)
        ii == lexsort(sc, lb)
        ll == llrs(pv)
        cc == <<0>> \o CumSum(pv.counts)
        pos(i) == CHOOSE r \in 1..Len(sc) : ii[r] = i
        bin(i) == CHOOSE k \in 1..pv.nbins : cc[k] < pos(i) /\ pos(i) <= cc[k + 1]
    IN  IF pv.state = "ok" THEN [i \in 1..Len(sc) |-> ll[bin(i)]] ELSE sc

\* utils.tarnon_2_scoreslabels(tar, non): the target scores then the
\* non-target scores, labelled 1 and 0
tarnon_2_scoreslabels(tar, non) ==
    [scores |-> tar \o non,
     labels |-> [i \in 1..Len(tar) + Len(non) |-> IF i <= Len(tar) THEN 1 ELSE 0]]

\* A trial set of at most MaxN trials, from its target and its non-target
\* scores (either may be empty, and the scores are in no order): the arrays
\* tarnon_2_scoreslabels makes of them, or the same trials with the non-targets
\* first.  The scores are as given, or the LLRs PAV fits to them.
Init ==
    /\ \E t \in 0..MaxN :
         \E n \in 0..MaxN - t :
           \E tar \in [1..t -> ScoreSet], non \in [1..n -> ScoreSet] :
             LET sl == tarnon_2_scoreslabels(tar, non)
             IN  \E lb \in {sl.labels, [i \in 1..t + n |-> IF i <= n THEN 0 ELSE 1]} :
                   \E sc \in {IF lb = sl.labels THEN sl.scores ELSE non \o tar} :
                     /\ labels = lb
                     /\ scores \in {sc, Calibrated(sc, lb)}
    /\ pav = NoPAV
    /\ rocch = NoROCCH
    /\ plo = NoPlo
    /\ ret = NoRet

(* ------------------------------ actions -------------------------------- *)

\* pav = PAV(scores, labels)
NewPAV ==
    /\ pav = NoPAV
    /\ pav' = PAV(scores, labels)
    /\ UNCHANGED <<scores, labels, rocch, plo, ret>>

\* ROCCH(pav): self.PmissPfa = pava.rocch(True)
NewROCCH ==
    /\ pav.state = "ok"
    /\ rocch = NoROCCH
    /\ rocch' = [state |-> "ok", PmissPfa |-> rocch_matrix(pav)]
    /\ UNCHANGED <<scores, labels, pav, plo, ret>>

\* rocch.Bayes_error_rate(arg, flag), arg a scalar or an array
CallBayesErrorRate ==
    /\ rocch.state = "ok"
    /\ ret = NoRet
    /\ \E flag \in BOOLEAN :
         \E arg \in {Scalar(x) : x \in PloSet} :
          /\ plo' = arg
          /\ ret' = [op |-> "Bayes_error_rate", flag |-> flag,
                     value |-> Bayes_error_rate(rocch.PmissPfa, arg, flag)]
    /\ UNCHANGED <<scores, labels, pav, rocch>>

CallBayesErrorRateArray ==
    /\ rocch.state = "ok"
    /\ ret = NoRet
    /\ \E flag \in BOOLEAN :
         \E arg \in {Array(a) : a \in PloArrays} :
          /\ plo' = arg
          /\ ret' = [op |-> "Bayes_error_rate", flag |-> flag,
                     value |-> Bayes_error_rate(rocch.PmissPfa, arg, flag)]
    /\ UNCHANGED <<scores, labels, pav, rocch>>

\* the client has built what it builds of the trial set: the PAV model and
\* its ROCCH, or PAV has failed
Built == rocch.state = "ok" \/ pav.state = "AssertionError"

\* fast_Bayes_error_rate(scores, labels, a, flag)
CallFastBayesErrorRate ==
    /\ Built
    /\ ret = NoRet
    /\ \E a \in PloArrays, flag \in BOOLEAN :
          /\ plo' = Array(a)
          /\ ret' = [op |-> "fast_Bayes_error_rate", flag |-> flag,
                     value |-> fast_Bayes_error_rate(scores, labels, a, flag)]
    /\ UNCHANGED <<scores, labels, pav, rocch>>

\* Bayes_error_rate_analysis(scores, labels, a), which builds a PAV model and
\* a ROCCH of its own
CallBayesErrorRateAnalysis ==
    /\ Built
    /\ ret = NoRet
    /\ \E a \in AnalysisArrays :
          /\ plo' = Array(a)
          /\ ret' = [op |-> "Bayes_error_rate_analysis",
                     value |-> Bayes_error_rate_analysis(scores, labels, a)]
    /\ UNCHANGED <<scores, labels, pav, rocch>>

\* default_error_rate(arg) at one operating point
CallDefaultErrorRate ==
    /\ Built
    /\ ret = NoRet
    /\ \E arg \in {Scalar(x) : x \in PloSet} :
          /\ plo' = arg
          /\ ret' = [op |-> "default_error_rate", value |-> default_error_rate(arg)]
    /\ UNCHANGED <<scores, labels, pav, rocch>>

\* rocch.EER()
CallEER ==
    /\ rocch.state = "ok"
    /\ ret = NoRet
    /\ ret' = [op |-> "EER", value |-> EER(rocch.PmissPfa)]
    /\ UNCHANGED <<scores, labels, pav, rocch, plo>>

\* pav.llrs()
CallLlrs ==
    /\ pav.state = "ok"
    /\ ret = NoRet
    /\ ret' = [op |-> "llrs", value |-> <<llrs(pav), pav.targets, pav.nontars>>]
    /\ UNCHANGED <<scores, labels, pav, rocch, plo>>

\* rocch.AUC()
CallAUC ==
    /\ rocch.state = "ok"
    /\ ret = NoRet
    /\ ret' = [op |-> "AUC", value |-> AUC(rocch.PmissPfa)]
    /\ UNCHANGED <<scores, labels, pav, rocch, plo>>

\* pav.rocch(): (pmiss, pfa)
CallRocch ==
    /\ pav.state = "ok"
    /\ ret = NoRet
    /\ ret' = [op |-> "rocch", value |-> rocch_matrix(pav)]
    /\ UNCHANGED <<scores, labels, pav, rocch, plo>>

\* pav.scores_vs_llrs()
CallScoresVsLlrs ==
    /\ pav.state = "ok"
    /\ ret = NoRet
    /\ pav' = scores_vs_llrs(pav).self
    /\ ret' = [op |-> "scores_vs_llrs", value |-> scores_vs_llrs(pav).value]
    /\ UNCHANGED <<scores, labels, rocch, plo>>

\* min_cllr(pav)
CallMinCllr ==
    /\ pav.state = "ok"
    /\ ret = NoRet
    /\ ret' = [op |-> "min_cllr", value |-> min_cllr(pav)]
    /\ UNCHANGED <<scores, labels, pav, rocch, plo>>

\* scoreslabels_2_eer_cllr_mincllr(scores, labels), which builds a PAV model
\* and a ROCCH of its own
CallEerCllrMinCllr ==
    /\ Built
    /\ ret = NoRet
    /\ ret' = [op |-> "scoreslabels_2_eer_cllr_mincllr",
               value |-> scoreslabels_2_eer_cllr_mincllr(scores, labels)]
    /\ UNCHANGED <<scores, labels, pav, rocch, plo>>

\* the caller is done with the value a call returned
Return ==
    /\ ret # NoRet
    /\ ret' = NoRet
    /\ plo' = NoPlo
    /\ UNCHANGED <<scores, labels, pav, rocch>>

Next ==
    \/ NewPAV
    \/ NewROCCH
    \/ CallBayesErrorRate
    \/ CallBayesErrorRateArray
    \/ CallFastBayesErrorRate
    \/ CallEER
    \/ CallBayesErrorRateAnalysis
    \/ CallDefaultErrorRate
    \/ CallLlrs
    \/ CallRocch
    \/ CallScoresVsLlrs
    \/ CallAUC
    \/ CallMinCllr
    \/ CallEerCllrMinCllr
    \/ Return

Spec == Init /\ [][Next]_vars

(* ======================= the PAV model (C1, C2) ======================== *)

\* the trial at each position of the order PAV sorts the trials into
Order == lexsort(scores, labels) \o <<>>

\* the labels of the trials in that order
SortedLabels == LET ii == Order IN [r \in 1..Len(labels) |-> labels[ii[r]]] \o <<>>

\* the first and the last sorted position of every block: the counts laid
\* end to end
BlockEnds == LET cc == (<<0>> \o CumSum(pav.counts)) \o <<>>
             IN  [k \in 1..pav.nbins |-> <<cc[k] + 1, cc[k + 1]>>] \o <<>>

\* the number of trials with label c among the sorted labels sl at the
\* positions from lo to hi
LabelCount(sl, lo, hi, c) == Cardinality({r \in lo..hi : sl[r] = c})

\* the number of trials with label c whose sorted position falls in each block
BlockLabelCounts(c) ==
    LET sl == SortedLabels
        be == BlockEnds
    IN  [k \in 1..pav.nbins |-> LabelCount(sl, be[k][1], be[k][2], c)] \o <<>>

\* C1: in every PAV model the pooled probability p of a block is the fraction
\* of targets among the trials of the block, and p strictly increases from one
\* block to the next in score order: no two blocks share a p value and no
\* block has a smaller p than an earlier one.
C1_BlockPStrictlyIncreasing ==
    pav.state = "ok" =>
        /\ LET tc == BlockLabelCounts(1)
           IN  \A k \in 1..pav.nbins : pav.p[k] = Norm(tc[k], pav.counts[k])
        /\ \A k \in 1..pav.nbins - 1 : RLt(pav.p[k], pav.p[k + 1])
        /\ \A j, k \in 1..pav.nbins : j < k => pav.p[j] # pav.p[k] /\ ~RLt(pav.p[k], pav.p[j])

\* a PAV model of three blocks, the middle one pooled from both classes
C1_Witness ==
    /\ pav.state = "ok"
    /\ pav.nbins = 3
    /\ RLt(Zero, pav.p[2]) /\ RLt(pav.p[2], One)
    /\ pav.counts[2] >= 2

\* C2: the target count PAV recovers for a block as rint(count * p) is the
\* number of label-1 trials whose sorted position falls in the block, nontars
\* is the number of label-0 trials there, and the counts sum to T and N, the
\* numbers of label-1 and label-0 trials.
C2_CountsRecovered ==
    pav.state = "ok" =>
        /\ pav.targets = BlockLabelCounts(1)
        /\ pav.nontars = BlockLabelCounts(0)
        /\ SumSeq(pav.targets) = pav.T
        /\ SumSeq(pav.nontars) = pav.N
        /\ pav.T = Cardinality({i \in 1..Len(labels) : labels[i] = 1})
        /\ pav.N = Cardinality({i \in 1..Len(labels) : labels[i] = 0})

\* a PAV model with a block of three trials pooled to p = 1/3 or p = 2/3,
\* where count * p is recovered from a fraction that is no binary fraction
C2_Witness ==
    /\ pav.state = "ok"
    /\ \E k \in 1..pav.nbins :
          /\ pav.counts[k] = 3
          /\ pav.p[k] \in {<<1, 3>>, <<2, 3>>}
          /\ pav.targets[k] + pav.nontars[k] = 3

(* ======================== the ROCCH (C3, C4) =========================== *)

\* C3: the ROCCH vertex arrays have length nbins + 1 (at least 2), start at
\* (Pmiss, Pfa) = (0, 1) and end at (1, 0), Pmiss never decreases and Pfa never
\* increases along them, and vertex k is at Pmiss = (targets in blocks 1..k) / T
\* and Pfa = 1 - (non-targets in blocks 1..k) / N.
C3_RocchShape ==
    rocch.state = "ok" =>
        LET pmiss == rocch.PmissPfa.pmiss
            pfa == rocch.PmissPfa.pfa
            nv == pav.nbins + 1
            tk == (<<0>> \o CumSum(BlockLabelCounts(1))) \o <<>>
            nk == (<<0>> \o CumSum(BlockLabelCounts(0))) \o <<>>
        IN  /\ Len(pmiss) = nv /\ Len(pfa) = nv /\ nv >= 2
            /\ pmiss[1] = Zero /\ pfa[1] = One
            /\ pmiss[nv] = One /\ pfa[nv] = Zero
            /\ \A k \in 1..nv - 1 : RLe(pmiss[k], pmiss[k + 1]) /\ RLe(pfa[k + 1], pfa[k])
            /\ \A k \in 0..pav.nbins :
                  /\ pmiss[k + 1] = Norm(tk[k + 1], pav.T)
                  /\ pfa[k + 1] = RSub(One, Norm(nk[k + 1], pav.N))

\* a ROCCH of four vertices, the inner two apart in both Pmiss and Pfa
C3_Witness ==
    /\ rocch.state = "ok"
    /\ Len(rocch.PmissPfa.pmiss) = 4
    /\ RLt(rocch.PmissPfa.pmiss[2], rocch.PmissPfa.pmiss[3])
    /\ RLt(rocch.PmissPfa.pfa[3], rocch.PmissPfa.pfa[2])

\* C4: the ROCCH vertices describe a convex curve: for consecutive blocks k
\* and k + 1, targets[k] * nontars[k+1] < targets[k+1] * nontars[k], and the
\* same holds of the steps between the vertices (the step of segment k is
\* targets[k] / T in Pmiss and nontars[k] / N in Pfa).
C4_RocchConvex ==
    rocch.state = "ok" =>
        LET pmiss == rocch.PmissPfa.pmiss
            pfa == rocch.PmissPfa.pfa
            dmiss(k) == RSub(pmiss[k + 1], pmiss[k])
            dfa(k) == RSub(pfa[k], pfa[k + 1])
        IN  \A k \in 1..pav.nbins - 1 :
              /\ pav.targets[k] * pav.nontars[k + 1] < pav.targets[k + 1] * pav.nontars[k]
              /\ RLt(RMul(dmiss(k), dfa(k + 1)), RMul(dmiss(k + 1), dfa(k)))

\* a ROCCH of three segments, none of them along an axis at the middle
C4_Witness ==
    /\ rocch.state = "ok"
    /\ pav.nbins = 3
    /\ pav.targets[2] > 0 /\ pav.nontars[2] > 0

(* ================== the Bayes error-rates (C5 .. C10) ================== *)

\* the trials with label c
Trials(c) == {i \in 1..Len(labels) : labels[i] = c}

\* the naive miss rate at operating point x: the fraction of targets whose
\* score is below the Bayes threshold -x
NaivePmiss(x) ==
    Norm(Cardinality({i \in Trials(1) : LLt(scores[i], LNeg(x))}),
         Cardinality(Trials(1)))

\* the naive false-alarm rate at x: the fraction of non-targets whose score is
\* not below the threshold -x
NaivePfa(x) ==
    Norm(Cardinality({i \in Trials(0) : ~LLt(scores[i], LNeg(x))}),
         Cardinality(Trials(0)))

\* a call of fast_Bayes_error_rate on a trial set with targets and
\* non-targets has returned
FastReturned ==
    /\ ret.op = "fast_Bayes_error_rate"
    /\ ret.value.state = "ok"
    /\ Trials(1) # {} /\ Trials(0) # {}

\* the operating points of the call are strictly increasing
StrictlySorted(a) == \A j \in 1..Len(a) - 1 : LLt(a[j], a[j + 1])

\* C5: fast_Bayes_error_rate agrees with the naive computation: for every
\* array of operating points that passes the sortedness check and every trial
\* set with T, N >= 1, Pmiss[i] is the fraction of targets below the threshold
\* -plo[i] and Pfa[i] the fraction of non-targets not below it.
C5_FastAgreesWithNaive ==
    (FastReturned /\ ret.flag) =>
        /\ Len(ret.value.Pmiss.v) = Len(plo.v)
        /\ Len(ret.value.Pfa.v) = Len(plo.v)
        /\ \A i \in 1..Len(plo.v) :
              /\ ret.value.Pmiss.v[i] = NaivePmiss(plo.v[i])
              /\ ret.value.Pfa.v[i] = NaivePfa(plo.v[i])

\* the same for the arrays in which no operating point occurs twice
FastAgreesWhenDistinct ==
    (FastReturned /\ ret.flag /\ StrictlySorted(plo.v)) =>
        \A i \in 1..Len(plo.v) :
            /\ ret.value.Pmiss.v[i] = NaivePmiss(plo.v[i])
            /\ ret.value.Pfa.v[i] = NaivePfa(plo.v[i])

\* the cost of vertex k at the operating point x = log(a/b), from the prior
\* a/(a+b) of a target and b/(a+b) of a non-target
VertexCost(x, k) ==
    RMul(<<1, x[1] + x[2]>>,
         RAdd(RMul(RInt(x[1]), rocch.PmissPfa.pmiss[k]),
              RMul(RInt(x[2]), rocch.PmissPfa.pfa[k])))

Vertices == 1..Len(rocch.PmissPfa.pmiss)

\* v is the least vertex cost at x
IsMinCost(v, x) ==
    /\ \A k \in Vertices : RLe(v, VertexCost(x, k))
    /\ \E k \in Vertices : v = VertexCost(x, k)

\* C6: ROCCH.Bayes_error_rate returns at every operating point the minimum
\* over the ROCCH vertices of ptar * Pmiss_k + pnon * Pfa_k; with
\* return_Pmiss_Pfa the returned (Pmiss, Pfa) is a vertex that attains it, the
\* returned error is ptar * Pmiss + pnon * Pfa and is the value returned
\* without the flag; a scalar gives scalars, an array arrays of its length.
C6_OptimalIsMinOverVertices ==
    ret.op = "Bayes_error_rate" =>
        LET xs == IF plo.kind = "scalar" THEN <<plo.v>> ELSE plo.v
            out(f) == IF plo.kind = "scalar" THEN <<f.v>> ELSE f.v
            val == ret.value
        IN  /\ val.ber.kind = plo.kind
            /\ Len(out(val.ber)) = Len(xs)
            /\ \A j \in 1..Len(xs) : IsMinCost(out(val.ber)[j], xs[j])
            /\ ret.flag =>
                 /\ val.Pmiss.kind = plo.kind /\ val.Pfa.kind = plo.kind
                 /\ Len(out(val.Pmiss)) = Len(xs) /\ Len(out(val.Pfa)) = Len(xs)
                 /\ val.ber = Bayes_error_rate(rocch.PmissPfa, plo, FALSE).ber
                 /\ \A j \in 1..Len(xs) :
                      \E k \in Vertices :
                         /\ out(val.Pmiss)[j] = rocch.PmissPfa.pmiss[k]
                         /\ out(val.Pfa)[j] = rocch.PmissPfa.pfa[k]
                         /\ out(val.ber)[j] = VertexCost(xs[j], k)
                         /\ out(val.ber)[j] =
                              RAdd(RMul(sigmoid(xs[j]), out(val.Pmiss)[j]),
                                   RMul(RSub(One, sigmoid(xs[j])), out(val.Pfa)[j]))

\* a call with the flag on an array of two operating points whose minima are
\* at different vertices, one of them an inner vertex
C6_Witness ==
    /\ ret.op = "Bayes_error_rate"
    /\ ret.flag
    /\ plo.kind = "array"
    /\ Len(plo.v) = 2
    /\ ret.value.Pmiss.v[1] # ret.value.Pmiss.v[2]
    /\ \E j \in 1..2 : /\ ret.value.Pmiss.v[j] \notin {Zero, One}
                       /\ RLt(Zero, ret.value.ber.v[j])

\* trials i and j have the same score, i a target and j a non-target
TiedAcrossClasses(i, j) ==
    /\ labels[i] = 1 /\ labels[j] = 0
    /\ LEq(scores[i], scores[j])

\* the position of every trial in the order PAV sorts the trials into
Positions ==
    LET ii == Order
    IN  [i \in 1..Len(scores) |-> CHOOSE r \in 1..Len(scores) : ii[r] = i] \o <<>>

\* C7 as claimed: when PAV sorts the trials, trials with equal scores are
\* ordered with non-targets (label 0) before targets (label 1).
C7_TiesNonTargetsFirst ==
    pav.state = "ok" =>
        LET pos == Positions
        IN  \A i, j \in 1..Len(scores) : TiedAcrossClasses(i, j) => pos[j] < pos[i]

\* C7 as amended: when PAV sorts the trials, trials with equal scores are
\* ordered with targets (label 1) before non-targets (label 0), so a target
\* and a non-target with the same score are pooled into one block.
C7_TiesTargetsFirst ==
    pav.state = "ok" =>
        LET pos == Positions
            be == BlockEnds
        IN  \A i, j \in 1..Len(scores) :
              TiedAcrossClasses(i, j) =>
                /\ pos[i] < pos[j]
                /\ \E k \in 1..pav.nbins :
                      be[k][1] <= pos[i] /\ pos[j] <= be[k][2]

\* a PAV model of a trial set in which a non-target, placed before a target
\* in the arrays, has the target's score, next to trials of other scores
C7_Witness ==
    /\ pav.state = "ok"
    /\ pav.nbins >= 2
    /\ \E i, j \in 1..Len(scores) : TiedAcrossClasses(i, j) /\ j < i

\* the error-rates a call returned, as one sequence
ReturnedBer ==
    IF ret.value.ber.kind = "scalar" THEN <<ret.value.ber.v>> ELSE ret.value.ber.v

InRange(v, lo, hi) == RLe(lo, v) /\ RLe(v, hi)

\* C8 as claimed: both Bayes error-rates are in [0, 0.5] at every operating
\* point, the optimal one and the actual one, for any valid trial set.
C8_BothWithinHalf ==
    /\ ret.op = "Bayes_error_rate" =>
          \A j \in 1..Len(ReturnedBer) : InRange(ReturnedBer[j], Zero, Half)
    /\ FastReturned =>
          \A j \in 1..Len(ReturnedBer) : InRange(ReturnedBer[j], Zero, Half)

\* C8 as amended: the optimal Bayes error-rate (ROCCH.Bayes_error_rate) is in
\* [0, 0.5] at every operating point, and is at most min(ptar, pnon) there.
C8_OptimalWithinHalf ==
    ret.op = "Bayes_error_rate" =>
        LET xs == IF plo.kind = "scalar" THEN <<plo.v>> ELSE plo.v
        IN  \A j \in 1..Len(ReturnedBer) :
               /\ InRange(ReturnedBer[j], Zero, Half)
               /\ RLe(ReturnedBer[j], RMin(sigmoid(xs[j]), sigmoid(LNeg(xs[j]))))

\* an optimal error-rate of exactly 0.5, and one strictly inside the range
C8_Witness ==
    /\ ret.op = "Bayes_error_rate"
    /\ plo.kind = "array"
    /\ Len(plo.v) = 2
    /\ ret.value.ber.v[1] = Half
    /\ RLt(Zero, ret.value.ber.v[2]) /\ RLt(ret.value.ber.v[2], Half)

\* the operating points the optimal error-rate curve is examined at
OperatingPoints == (1..MaxOdds) \X (1..MaxOdds)

\* the optimal Bayes error-rate at x: the least vertex cost
LeastCost(x) ==
    LET costs == {VertexCost(x, k) : k \in Vertices}
    IN  CHOOSE v \in costs : \A u \in costs : RLe(v, u)

\* the common value Pmiss = Pfa of the point where the ROCCH, as a
\* piecewise-linear curve through its vertices, meets the line Pmiss = Pfa: on
\* the segment k that starts on or above the line (Pmiss <= Pfa) and ends on or
\* below it
DiagonalCrossing ==
    LET pmiss == rocch.PmissPfa.pmiss
        pfa == rocch.PmissPfa.pfa
        k == CHOOSE j \in 1..Len(pmiss) - 1 :
                RLe(pmiss[j], pfa[j]) /\ RLe(pfa[j + 1], pmiss[j + 1])
        t == RDiv(RSub(pfa[k], pmiss[k]),
                  RAdd(RSub(pmiss[k + 1], pmiss[k]), RSub(pfa[k], pfa[k + 1])))
    IN  RAdd(pmiss[k], RMul(t, RSub(pmiss[k + 1], pmiss[k])))

\* C9: ROCCH.EER returns a value in [0, 0.5] that is the maximum over the
\* operating points of the optimal Bayes error-rate (no operating point has a
\* larger one and some operating point has it), and that maximum is the common
\* value Pmiss = Pfa of the point where the ROCCH meets the line Pmiss = Pfa.
C9_EerIsMaxAndCrossing ==
    ret.op = "EER" =>
        /\ InRange(ret.value, Zero, Half)
        /\ \A x \in OperatingPoints : RLe(LeastCost(x), ret.value)
        /\ \E x \in OperatingPoints \cup Kinks(rocch.PmissPfa) : LeastCost(x) = ret.value
        /\ ret.value = DiagonalCrossing

\* an EER strictly between 0 and 0.5 where the ROCCH crosses the line
\* Pmiss = Pfa inside a segment, at no vertex
C9_Witness ==
    /\ ret.op = "EER"
    /\ RLt(Zero, ret.value) /\ RLt(ret.value, Half)
    /\ \A k \in Vertices : rocch.PmissPfa.pmiss[k] # rocch.PmissPfa.pfa[k]

\* every trial's score is the LLR PAV fits to its block
PerfectlyCalibrated == Calibrated(scores, labels) = scores

\* C10: if every trial's score is the PAV-fitted LLR of its own block, then at
\* every operating point the actual Bayes error-rate of fast_Bayes_error_rate
\* is the optimal Bayes error-rate of ROCCH(PAV(scores, labels)).
C10_CalibratedActualIsOptimal ==
    (FastReturned /\ rocch.state = "ok" /\ PerfectlyCalibrated) =>
        ret.value.ber = Bayes_error_rate(rocch.PmissPfa, plo, FALSE).ber

\* the same for the arrays in which no operating point occurs twice
CalibratedActualIsOptimalWhenDistinct ==
    (FastReturned /\ rocch.state = "ok" /\ PerfectlyCalibrated /\ StrictlySorted(plo.v)) =>
        ret.value.ber = Bayes_error_rate(rocch.PmissPfa, plo, FALSE).ber

(* ======================= rejected calls (C11 .. C13) ==================== *)

\* some operating point of the array is below the one before it
Descends(a) == \E j \in 1..Len(a) - 1 : LLt(a[j + 1], a[j])

\* a call of fast_Bayes_error_rate has come back, with a value or an error
FastCalled == ret.op = "fast_Bayes_error_rate"

\* C11 as claimed: fast_Bayes_error_rate rejects an array of operating points
\* that is not sorted ascending with an UnsortedOperatingPointsError and
\* returns no result.
C11_UnsortedRaisesNamedError ==
    (FastCalled /\ Descends(plo.v)) =>
        ret.value = [state |-> "UnsortedOperatingPointsError", at |-> "sorted"]

\* C11 as amended: fast_Bayes_error_rate rejects an array of operating points
\* that is not sorted ascending with the AssertionError of its sortedness
\* assert and returns no result: no array of error-rates comes back; and a
\* result that does come back has one entry per operating point, entry j
\* computed from operating point j of the array as passed (the default
\* error-rate is min(sigmoid(plo[j]), sigmoid(-plo[j]))).
C11_UnsortedRaisesAssertionError ==
    /\ (FastCalled /\ Descends(plo.v)) =>
          ret.value = [state |-> "AssertionError", at |-> "sorted"]
    /\ (FastCalled /\ ret.value.state = "ok") =>
          /\ ~Descends(plo.v)
          /\ Len(ret.value.ber.v) = Len(plo.v)
          /\ ret.flag =>
               \A j \in 1..Len(plo.v) :
                  ret.value.der.v[j] =
                     RMin(sigmoid(plo.v[j]), sigmoid(LNeg(plo.v[j])))

\* a call on a trial set with targets and non-targets, with two operating
\* points in descending order, has been rejected
C11_Witness ==
    /\ FastCalled
    /\ Trials(1) # {} /\ Trials(0) # {}
    /\ Len(plo.v) = 2 /\ LLt(plo.v[2], plo.v[1])
    /\ ret.value.state = "AssertionError"

\* C12: fast_Bayes_error_rate requires D >= 1, T >= 1 and N >= 1: a call with
\* no operating point, with no target or with no non-target is rejected with
\* an error and produces no error-rate values.
C12_RejectsNoPointNoTargetNoNonTarget ==
    (FastCalled /\ (Len(plo.v) = 0 \/ Trials(1) = {} \/ Trials(0) = {})) =>
        ret.value.state # "ok"

\* what "assert N + T > 0 < D" does reject: no operating point, or no trial
FastRejectsNoPointOrNoTrial ==
    (FastCalled /\ (Len(plo.v) = 0 \/ Len(scores) = 0)) =>
        ret.value.state = "AssertionError"

\* the PAV constructor has run on the trial set
PavCalled == pav # NoPAV

\* the trial set has no target or no non-target
LacksAClass == Trials(1) = {} \/ Trials(0) = {}

\* C13 as claimed: the PAV constructor fails with an InsufficientDataError
\* and yields no PAV model when the trial set has no target or no non-target,
\* and succeeds on every trial set with a trial of each label.
C13_FailsWithNamedError ==
    PavCalled =>
        IF LacksAClass
        THEN pav = [state |-> "InsufficientDataError", at |-> "T > 0 < N"]
        ELSE pav.state = "ok"

\* C13 as amended: the PAV constructor fails with the AssertionError of
\* "assert T > 0 < N" and yields no PAV model (and so no ROCCH) when the trial
\* set has no target or no non-target, which covers every trial set of fewer
\* than two trials; it succeeds on every trial set with a trial of each label.
C13_FailsWithAssertionError ==
    /\ PavCalled =>
          IF LacksAClass
          THEN pav = [state |-> "AssertionError", at |-> "T > 0 < N"] /\ rocch = NoROCCH
          ELSE pav.state = "ok"
    /\ (PavCalled /\ Len(labels) < 2) => pav.state = "AssertionError"

\* the constructor has failed on a trial set of two or more trials of one
\* class
C13_Witness ==
    /\ pav.state = "AssertionError"
    /\ Len(labels) >= 2

(* ===================== Cllr and minCllr (C14, C19) ====================== *)

\* A natural number too large for the checker's integers is a sequence of
\* digits to the base 10000, the least significant first.

\* x * k + carry, for a small natural k
RECURSIVE BigTimes(_, _, _)
BigTimes(x, k, carry) ==
    IF x = <<>>
    THEN (IF carry = 0 THEN <<>> ELSE <<carry % 10000>> \o BigTimes(x, k, carry \div 10000))
    ELSE <<(x[1] * k + carry) % 10000>>
            \o BigTimes(Tail(x), k, (x[1] * k + carry) \div 10000)

\* x * p ** n
RECURSIVE BigTimesPower(_, _, _)
BigTimesPower(x, p, n) ==
    IF n <= 0 THEN x ELSE BigTimesPower(BigTimes(x, p, 0), p, n - 1)

\* the product of p ** d[p] over the primes p of ps
RECURSIVE BigProduct(_, _)
BigProduct(d, ps) ==
    IF ps = {} THEN <<1>>
    ELSE LET p == CHOOSE q \in ps : TRUE
         IN  BigTimesPower(BigProduct(d, ps \ {p}), p, d[p])

\* x <= y
BigLe(x, y) ==
    IF Len(x) # Len(y) THEN Len(x) < Len(y)
    ELSE \/ x = y
         \/ \E j \in 1..Len(x) : x[j] < y[j] /\ \A i \in j + 1..Len(x) : x[i] = y[i]

\* u <= v for two numbers kept by their prime factors: after cancelling, the
\* primes left in u against the primes left in v
PLe(u, v) ==
    IF u.kind = "nan" \/ v.kind = "nan" THEN FALSE
    ELSE IF v.kind = "inf" THEN TRUE
    ELSE IF u.kind = "inf" THEN FALSE
    ELSE LET d == [p \in Primes |-> u.e[p] - v.e[p]]
         IN  BigLe(BigProduct(d, {p \in Primes : d[p] > 0}),
                   BigProduct([p \in Primes |-> -d[p]], {p \in Primes : d[p] < 0}))

\* u <= v for two logarithms over the same divisor m
VLe(u, v) == u.m = v.m /\ PLe(u.L, v.L)

\* scoreslabels_2_eer_cllr_mincllr has returned its three values
EvalReturned ==
    /\ ret.op = "scoreslabels_2_eer_cllr_mincllr"
    /\ ret.value.state = "ok"

\* C14: for every valid trial set, Cllr of the raw scores, cllr(tar, non), is
\* greater than or equal to minCllr of the PAV model of the same trials,
\* min_cllr(PAV(scores, labels)).
C14_CllrAtLeastMinCllr ==
    EvalReturned =>
        /\ VLe(ret.value.minCllr, ret.value.Cllr)
        /\ ret.value.minCllr = min_cllr(pav)

\* both are finite and Cllr is strictly the larger, on a trial set where PAV
\* pools trials of both classes next to a block of its own
C14_Witness ==
    /\ EvalReturned
    /\ ret.value.Cllr.L.kind = "finite"
    /\ ret.value.Cllr.L # ret.value.minCllr.L
    /\ pav.state = "ok" /\ pav.nbins >= 2
    /\ \E k \in 1..pav.nbins : pav.targets[k] > 0 /\ pav.nontars[k] > 0

(* ============================== AUC (C15) =============================== *)

\* the pairs of a target and a non-target in which the target's score is the
\* higher one
TargetAbove == {q \in Trials(1) \X Trials(0) : LLt(scores[q[2]], scores[q[1]])}

\* C15: ROCCH.AUC returns the probability that a randomly selected target
\* score exceeds a randomly selected non-target score, for the trial set the
\* ROCCH was built from: the fraction of the target, non-target pairs with the
\* target above, which is 1 when every target is above every non-target.
C15_AucIsProbabilityTargetAbove ==
    ret.op = "AUC" =>
        ret.value = Norm(Cardinality(TargetAbove),
                         Cardinality(Trials(1)) * Cardinality(Trials(0)))

\* what ROCCH.AUC returns when every target is above every non-target: 0
AucIsZeroWhenSeparated ==
    (ret.op = "AUC" /\ TargetAbove = Trials(1) \X Trials(0)) => ret.value = Zero

(* =================== Bayes_error_rate_analysis (C16) ==================== *)

\* Bayes_error_rate_analysis has come back from a call on a trial set with
\* targets and non-targets and a sorted array of one or more operating points
AnalysisCalled ==
    /\ ret.op = "Bayes_error_rate_analysis"
    /\ ~LacksAClass
    /\ Len(plo.v) >= 1 /\ ~Descends(plo.v)

\* C16: for any valid trial set and any sorted array of D >= 1 operating
\* points Bayes_error_rate_analysis returns, without failing, the three curves
\* with one entry per operating point: the optimal Bayes error-rate of the
\* ROCCH, the actual Bayes error-rate of fast_Bayes_error_rate and the default
\* error-rate min(ptar, pnon).
C16_AnalysisReturnsThreeCurves ==
    AnalysisCalled =>
        /\ ret.value.state = "ok"
        /\ ret.value.pav = Bayes_error_rate(rocch.PmissPfa, plo, FALSE).ber
        /\ ret.value.ber = fast_Bayes_error_rate(scores, labels, plo.v, FALSE).ber
        /\ ret.value.der =
              Array([j \in 1..Len(plo.v) |->
                        RMin(sigmoid(plo.v[j]), sigmoid(LNeg(plo.v[j])))] \o <<>>)

\* what the function does on those calls: it fails with a ValueError unless
\* there are exactly Unpacked operating points, and then what it returns as
\* the actual and the default curve are the first two entries of the actual
\* curve
AnalysisFailsUnlessFourPoints ==
    AnalysisCalled =>
        IF Len(plo.v) # Unpacked
        THEN ret.value = [state |-> "ValueError", at |-> "unpack"]
        ELSE LET actual == fast_Bayes_error_rate(scores, labels, plo.v, FALSE).ber.v
             IN  /\ ret.value.state = "ok"
                 /\ ret.value.ber = Scalar(actual[1])
                 /\ ret.value.der = Scalar(actual[2])

(* ========================= tied scores (C17, C18) ======================= *)

\* all the scores of the trial set are equal
AllTied == \A i, j \in 1..Len(scores) : LEq(scores[i], scores[j])

\* C17: when all scores of a trial set are equal, PAV produces a single block
\* with p = T/(T+N) (0.5 when T = N), the ROCCH has exactly the two vertices
\* (0,1) and (1,0), and the EER is 0.5.
C17_AllTiedOneBlock ==
    AllTied =>
        /\ pav.state = "ok" =>
              /\ pav.nbins = 1
              /\ pav.p = <<Norm(pav.T, pav.T + pav.N)>>
              /\ pav.T = pav.N => pav.p[1] = Half
              /\ pav.counts = <<pav.T + pav.N>>
        /\ rocch.state = "ok" =>
              /\ rocch.PmissPfa.pmiss = <<Zero, One>>
              /\ rocch.PmissPfa.pfa = <<One, Zero>>
        /\ ret.op = "EER" => ret.value = Half
        /\ EvalReturned => ret.value.eer = Half

\* the EER of a fully tied trial set with more targets than non-targets, or
\* more non-targets than targets, whose first trial is a non-target
C17_Witness ==
    /\ AllTied
    /\ ret.op = "EER"
    /\ pav.T # pav.N
    /\ labels[1] = 0

\* the block each trial falls in: the block whose sorted positions hold the
\* trial's position
BlockOf ==
    LET pos == Positions
        be == BlockEnds
    IN  [i \in 1..Len(scores) |->
            CHOOSE k \in 1..pav.nbins : be[k][1] <= pos[i] /\ pos[i] <= be[k][2]] \o <<>>

\* C18: in every PAV model trials with equal scores fall in the same block,
\* the score range [low, high] stored for a block runs from the lowest to the
\* highest score of its trials, and the ranges are strictly ordered: low <=
\* high in every block and the high of a block is below the low of the next.
C18_TiesShareBlockRangesOrdered ==
    pav.state = "ok" =>
        LET blk == BlockOf
            low(k) == pav.scores[k][1]
            high(k) == pav.scores[k][2]
        IN  /\ \A i, j \in 1..Len(scores) :
                  LEq(scores[i], scores[j]) => blk[i] = blk[j]
            /\ \A i \in 1..Len(scores) :
                  ~LLt(scores[i], low(blk[i])) /\ ~LLt(high(blk[i]), scores[i])
            /\ \A k \in 1..pav.nbins :
                  /\ ~LLt(high(k), low(k))
                  /\ \E i, j \in 1..Len(scores) :
                        /\ blk[i] = k /\ blk[j] = k
                        /\ scores[i] = low(k) /\ scores[j] = high(k)
            /\ \A k \in 1..pav.nbins - 1 : LLt(high(k), low(k + 1))

\* a PAV model of two or more blocks, one of them holding a target and a
\* non-target of equal score together with a trial of another score
C18_Witness ==
    /\ pav.state = "ok"
    /\ pav.nbins >= 2
    /\ \E i, j \in 1..Len(scores) :
          /\ TiedAcrossClasses(i, j)
          /\ LLt(pav.scores[BlockOf[i]][1], pav.scores[BlockOf[i]][2])

(* ============================ minCllr (C19) ============================= *)

MinusInf == <<0, 1>>
PlusInf == <<1, 0>>

\* the logarithm [L, m] is a finite number, not negative
FiniteNonNegative(v) == v.L.kind = "finite" /\ PLe(POne, v.L) /\ v.m > 0

\* C19: in every PAV model only the first block can have the LLR -inf, and
\* then it holds no target; only the last block can have the LLR +inf, and
\* then it holds no non-target.  min_cllr leaves out exactly the terms of the
\* blocks with a zero count, every term it sums is finite, and minCllr is a
\* finite number, not negative.
C19_InfiniteLlrsOnlyAtEnds ==
    /\ pav.state = "ok" =>
          LET ll == llrs(pav)
          IN  /\ \A k \in 1..pav.nbins :
                    /\ ll[k] = MinusInf => k = 1 /\ pav.targets[k] = 0
                    /\ ll[k] = PlusInf => k = pav.nbins /\ pav.nontars[k] = 0
                    /\ ll[k][1] + ll[k][2] > 0
              /\ tnz(pav) = {k \in 1..pav.nbins : pav.targets[k] # 0}
              /\ nnz(pav) = {k \in 1..pav.nbins : pav.nontars[k] # 0}
              /\ \A k \in tnz(pav) : tar_costs(pav)[k].kind = "finite"
              /\ \A k \in nnz(pav) : non_costs(pav)[k].kind = "finite"
    /\ ret.op = "llrs" =>
          /\ ret.value[1] = llrs(pav)
          /\ ret.value[2] = pav.targets /\ ret.value[3] = pav.nontars
    /\ ret.op = "min_cllr" => FiniteNonNegative(ret.value)
    /\ EvalReturned => FiniteNonNegative(ret.value.minCllr)

\* minCllr of a PAV model whose first block has the LLR -inf and whose last
\* block has the LLR +inf, with a block of finite LLR between them
C19_Witness ==
    /\ ret.op = "min_cllr"
    /\ pav.nbins >= 3
    /\ llrs(pav)[1] = MinusInf
    /\ llrs(pav)[pav.nbins] = PlusInf

(* ======================= nothing is mutated (C20) ======================= *)

\* the value a call returned is the value the same call returns when it is
\* made again now, on the objects and the arrays as they are after the call
SameOnRepeat ==
    CASE ret.op = "Bayes_error_rate" ->
            ret.value = Bayes_error_rate(rocch.PmissPfa, plo, ret.flag)
      [] ret.op = "fast_Bayes_error_rate" ->
            ret.value = fast_Bayes_error_rate(scores, labels, plo.v, ret.flag)
      [] ret.op = "Bayes_error_rate_analysis" ->
            ret.value = Bayes_error_rate_analysis(scores, labels, plo.v)
      [] ret.op = "default_error_rate" -> ret.value = default_error_rate(plo)
      [] ret.op = "EER" -> ret.value = EER(rocch.PmissPfa)
      [] ret.op = "AUC" -> ret.value = AUC(rocch.PmissPfa)
      [] ret.op = "rocch" -> ret.value = rocch_matrix(pav)
      [] ret.op = "llrs" -> ret.value = <<llrs(pav), pav.targets, pav.nontars>>
      [] ret.op = "scores_vs_llrs" -> ret.value = scores_vs_llrs(pav).value
      [] ret.op = "min_cllr" -> ret.value = min_cllr(pav)
      [] ret.op = "scoreslabels_2_eer_cllr_mincllr" ->
            ret.value = scoreslabels_2_eer_cllr_mincllr(scores, labels)
      [] OTHER -> TRUE

\* C20: after construction nothing is mutated: every call of PAV.rocch,
\* PAV.llrs, PAV.scores_vs_llrs, ROCCH.Bayes_error_rate, ROCCH.EER, ROCCH.AUC,
\* min_cllr and fast_Bayes_error_rate, after any calls before it, leaves the
\* PAV object, the ROCCH vertex matrix and the caller's scores and labels as
\* they were, and the operating points as they were passed, so that the same
\* evaluation made again returns the same result.
C20_NothingMutated ==
    /\ [][/\ scores' = scores /\ labels' = labels
          /\ pav # NoPAV => pav' = pav
          /\ rocch # NoROCCH => rocch' = rocch]_vars
    /\ []SameOnRepeat

\* scores_vs_llrs has returned on a PAV model of two or more bins whose
\* llrs are not its scores
C20_Witness ==
    /\ ret.op = "scores_vs_llrs"
    /\ pav.nbins >= 2
    /\ ret.value[1] # ret.value[2]
    /\ ret.value[1] = ravel(pav.scores)


(* ============ optimal against actual and default (C21) ================= *)

\* the operating points of the call, as one sequence
CalledAt == IF plo.kind = "scalar" THEN <<plo.v>> ELSE plo.v

\* the optimal Bayes error-rates of the ROCCH at the operating points of the
\* call, as one sequence
OptimalAtCalled ==
    LET ber == Bayes_error_rate(rocch.PmissPfa, plo, FALSE).ber
    IN  IF ber.kind = "scalar" THEN <<ber.v>> ELSE ber.v

\* C21: for every valid trial set and every operating point, the optimal
\* Bayes error-rate (ROCCH.Bayes_error_rate) is at most the actual Bayes
\* error-rate that fast_Bayes_error_rate reports for the same scores, labels
\* and operating point, and at most the default error-rate min(ptar, pnon).
C21_OptimalAtMostActualAndDefault ==
    /\ (FastReturned /\ rocch.state = "ok") =>
          \A j \in 1..Len(plo.v) : RLe(OptimalAtCalled[j], ret.value.ber.v[j])
    /\ (ret.op = "default_error_rate" /\ rocch.state = "ok") =>
          RLe(OptimalAtCalled[1], ret.value.v)
    /\ ret.op = "Bayes_error_rate" =>
          LET der == default_error_rate(plo)
          IN  \A j \in 1..Len(ReturnedBer) :
                 RLe(ReturnedBer[j], IF der.kind = "scalar" THEN der.v ELSE der.v[j])

\* the same with the actual error-rate taken only from the calls in which no
\* operating point occurs twice
OptimalAtMostActualWhenDistinct ==
    /\ (FastReturned /\ rocch.state = "ok" /\ StrictlySorted(plo.v)) =>
          \A j \in 1..Len(plo.v) : RLe(OptimalAtCalled[j], ret.value.ber.v[j])
    /\ (ret.op = "default_error_rate" /\ rocch.state = "ok") =>
          RLe(OptimalAtCalled[1], ret.value.v)
    /\ ret.op = "Bayes_error_rate" =>
          LET der == default_error_rate(plo)
          IN  \A j \in 1..Len(ReturnedBer) :
                 RLe(ReturnedBer[j], IF der.kind = "scalar" THEN der.v ELSE der.v[j])

====
